---- MODULE Spec2Model ----
(***************************************************************************)
(* volatility.framework.contexts: Context and ContextFactory.              *)
(*                                                                         *)
(* A Context aggregates one Memory (layer registry), one SymbolSpace and   *)
(* one configuration store, and is the factory of Objects.  A              *)
(* ContextFactory is a list of modifiers that populate a fresh Context.    *)
(* Memories and SymbolSpaces live on a heap: a Context holds references    *)
(* (indices) into memories and symbol_spaces, so that sharing of an        *)
(* instance between two Contexts is something the model can express.       *)
(***************************************************************************)
EXTENDS Integers, Sequences, FiniteSets, TLC

VARIABLES
    factory,          \* the ContextFactory: a Python list of elements
    contexts,         \* the Contexts constructed so far (index = identity)
    memories,         \* heap of layers.Memory instances: each a layer registry
    symbol_spaces,    \* heap of symbols.SymbolSpace instances
    x86NativeTable,   \* the module-level native table every Context is seeded with
    last              \* the last operation: its name, inputs, exception and return value

vars == <<factory, contexts, memories, symbol_spaces, x86NativeTable, last>>

----------------------------------------------------------------------------
(* Bounds of the model *)

MaxContexts == 2
MaxFactoryLen == 2

----------------------------------------------------------------------------
(* Values *)

NoException == "none"

None == [kind |-> "None"]

LayerNames == {"physical", "intel"}

\* A DataLayer: its name and the names of the layers it translates through.
Layer(name, dependencies) == [name |-> name, dependencies |-> dependencies]

\* The layers a caller may add: a raw layer, a translating layer over it, and
\* another layer that has the raw layer's name.
Layers == {Layer("physical", {}), Layer("intel", {"physical"}), Layer("physical", {"intel"})}

ParamNames == {"count"}
ParamValues == {3, 7}

\* **arguments of Context.object: a mapping of some parameter names to values.
Arguments == UNION {[D -> ParamValues] : D \in SUBSET ParamNames}

\* The symbols a caller may ask for: "array" is a native type, "Test" is
\* defined only where the windows modifier registered its table.
Symbols == {"array", "Test"}

\* The places (layer name, offset) a caller may bind an Object at.
Locations == {<<"physical", 0>>, <<"physical", 8>>, <<"intel", 0>>}

\* No template: the templates of a SymbolSpace no table was added to.
NoTemplates == [s \in {} |-> None]

\* A Template: the symbol it describes and its parameters (its "vol").
Template(symbol, vol) == [symbol |-> symbol, vol |-> vol]

\* The templates of native.x86NativeTable: a parametric array of 0 elements.
NativeTemplates == [s \in {"array"} |-> Template(s, [p \in ParamNames |-> 0])]

\* The templates of the table the windows modifier registers.
WindowsTemplates == [s \in {"Test"} |-> Template(s, [p \in ParamNames |-> 0])]

\* The elements a caller may put in a ContextFactory: the three modifiers the
\* package imports, and a value that is no modifier.
PhysicalModifier == [class |-> "Modifier", name |-> "physical"]
IntelModifier == [class |-> "Modifier", name |-> "intel"]
WindowsModifier == [class |-> "Modifier", name |-> "windows"]
NotAModifier == [class |-> "int", name |-> "42"]

Modifiers == {PhysicalModifier, IntelModifier, WindowsModifier}
Elements == Modifiers \cup {NotAModifier}

\* The iterables a caller may build a ContextFactory from or extend it with.
Iterables ==
    {<<>>, <<PhysicalModifier, IntelModifier>>} \cup {<<element>> : element \in Elements}

\* A ConfigGroup instance: the one named 'volatility' that the Context numbered
\* `owner` made for itself, or one named 'caller' that a caller made for it.
ConfigGroup(name, owner) == [class |-> "ConfigGroup", id |-> <<name, owner>>]

\* A value that is no ConfigGroup.
NotAConfigGroup == [class |-> "dict", id |-> <<"dict", 0>>]

\* The configuration options each modifier declares.
Options(modifier) ==
    IF modifier.name = "physical" THEN {"filename"}
    ELSE IF modifier.name = "intel" THEN {"dtb"}
    ELSE {"dtb", "symbols"}

----------------------------------------------------------------------------
(* The heap: the part of the state the operations of a Context work on *)

World == [contexts |-> contexts, memories |-> memories,
          symbol_spaces |-> symbol_spaces, x86NativeTable |-> x86NativeTable]

Names(registry) == {registry[i].name : i \in 1..Len(registry)}

\* Memory's lookup of a layer by name; None when no layer has the name.
Lookup(registry, name) ==
    IF name \in Names(registry)
    THEN LET i == CHOOSE j \in 1..Len(registry) : registry[j].name = name
         IN [kind |-> "Layer", layer |-> registry[i]]
    ELSE None

\* layers.Memory.add_layer
Memory_add_layer(registry, layer) ==
    IF layer.name \in Names(registry)
    THEN [raised |-> "LayerAlreadyExists", registry |-> registry]
    ELSE IF ~(layer.dependencies \subseteq Names(registry))
    THEN [raised |-> "LayerDependencyUnmet", registry |-> registry]
    ELSE [raised |-> NoException, registry |-> Append(registry, layer)]

\* symbols.SymbolSpace.get_structure: the table's templates, then the natives.
get_structure(w, ss, symbol) ==
    IF symbol \in DOMAIN w.symbol_spaces[ss].templates
    THEN [raised |-> NoException, template |-> w.symbol_spaces[ss].templates[symbol]]
    ELSE IF symbol \in DOMAIN w.x86NativeTable
    THEN [raised |-> NoException, template |-> w.x86NativeTable[symbol]]
    ELSE [raised |-> "SymbolNotFound", template |-> None]

\* Template.update_vol: a new template with the given parameters set; the
\* template it is called on is left as it was.
update_vol(template, arguments) ==
    Template(template.symbol,
             [p \in DOMAIN template.vol |->
                 IF p \in DOMAIN arguments THEN arguments[p] ELSE template.vol[p]])

\* Calling a template: the Object it builds at the given location.
Build(template, c, layer_name, offset) ==
    [kind |-> "Object", symbol |-> template.symbol, vol |-> template.vol,
     context |-> c, layer_name |-> layer_name, offset |-> offset]

----------------------------------------------------------------------------
(* Context *)

\* Context.__init__ with the Memory kept in one place for every Context.
Context__init__shared_memory(w) ==
    [_symbol_space |-> Len(w.symbol_spaces) + 1,
     _memory |-> 1,
     _config |-> ConfigGroup("volatility", Len(w.contexts) + 1)]

\* Context.__init__: the instances a new Context creates and keeps.
Context__init__(w) ==
    [_symbol_space |-> Len(w.symbol_spaces) + 1,
     _memory |-> Len(w.memories) + 1,
     _config |-> ConfigGroup("volatility", Len(w.contexts) + 1)]

\* The heap with the instance `ref` refers to: a new instance is added to it.
Allocate(heap, ref, value) == IF ref > Len(heap) THEN Append(heap, value) ELSE heap

\* Context(natives): the world with one more Context in it.
Construct(w) ==
    LET context == Context__init__(w)
    IN [w EXCEPT
          !.contexts = Append(@, context),
          !.symbol_spaces = Allocate(@, context._symbol_space,
                                     [natives |-> "x86NativeTable", templates |-> NoTemplates]),
          !.memories = Allocate(@, context._memory, <<>>)]

\* The setter of Context.config without its isinstance test.
Context_config_unchecked(w, c, value) ==
    [raised |-> NoException, w |-> [w EXCEPT !.contexts[c]._config = value]]

\* The setter of Context.config.
Context_config(w, c, value) ==
    IF value.class # "ConfigGroup"
    THEN [raised |-> "TypeError", w |-> w]
    ELSE [raised |-> NoException, w |-> [w EXCEPT !.contexts[c]._config = value]]

\* Context.add_translation_layer storing the layer under its name itself,
\* without Memory.add_layer.
Context_add_translation_layer_direct(w, c, layer) ==
    LET m == w.contexts[c]._memory
        registry == w.memories[m]
        stored == IF layer.name \in Names(registry)
                  THEN [i \in 1..Len(registry) |->
                           IF registry[i].name = layer.name THEN layer ELSE registry[i]]
                  ELSE Append(registry, layer)
    IN [raised |-> NoException, w |-> [w EXCEPT !.memories[m] = stored]]

\* Context.add_translation_layer
Context_add_translation_layer(w, c, layer) ==
    LET m == w.contexts[c]._memory
        r == Memory_add_layer(w.memories[m], layer)
    IN [raised |-> r.raised, w |-> [w EXCEPT !.memories[m] = r.registry]]

\* Context.object: the value update_vol returns is not kept, and the Object is
\* built from the template that was looked up.
Context_object(w, c, symbol, layer_name, offset, arguments) ==
    LET found == get_structure(w, w.contexts[c]._symbol_space, symbol)
    IN IF found.raised # NoException
       THEN [raised |-> found.raised, ret |-> None, w |-> w]
       ELSE LET object_template == found.template
                specialized == update_vol(object_template, arguments)
            IN [raised |-> NoException,
                ret |-> Build(object_template, c, layer_name, offset),
                w |-> w]

\* What each Context can see: its layers, its templates, its configuration.
View(w, c) ==
    [layers |-> w.memories[w.contexts[c]._memory],
     templates |-> w.symbol_spaces[w.contexts[c]._symbol_space].templates,
     natives |-> w.x86NativeTable,
     config |-> w.contexts[c]._config]

----------------------------------------------------------------------------
(* ContextFactory.  Positions count from 1 where Python's count from 0. *)

\* validity.ValidityRoutines._type_check as the factory uses it: only a
\* modifier passes.
type_check(value) == value.class = "Modifier"

\* ContextFactory.__setitem__
ContextFactory__setitem__(f, key, value) ==
    IF ~type_check(value)
    THEN [raised |-> "TypeError", factory |-> f]
    ELSE IF key \notin 1..Len(f)
    THEN [raised |-> "IndexError", factory |-> f]
    ELSE [raised |-> NoException, factory |-> [f EXCEPT ![key] = value]]

\* The list operations ContextFactory inherits from list unchanged.
list_append(f, value) == Append(f, value)

list_insert(f, index, value) ==
    LET i == IF index > Len(f) + 1 THEN Len(f) + 1 ELSE index
    IN SubSeq(f, 1, i - 1) \o <<value>> \o SubSeq(f, i, Len(f))

list_extend(f, iterable) == f \o iterable

list__init__(iterable) == iterable

\* modifier(context = context): what each modifier does to the Context.
Modifier__call__(w, c, modifier) ==
    IF modifier.class # "Modifier"
    THEN [raised |-> "TypeError", w |-> w]
    ELSE IF modifier.name = "physical"
    THEN Context_add_translation_layer(w, c, Layer("physical", {}))
    ELSE IF modifier.name = "intel"
    THEN Context_add_translation_layer(w, c, Layer("intel", {"physical"}))
    ELSE [raised |-> NoException,
          w |-> [w EXCEPT !.symbol_spaces[w.contexts[c]._symbol_space].templates =
                              WindowsTemplates]]

\* modifier.get_config_options()
get_config_options(modifier) ==
    IF modifier.class # "Modifier"
    THEN [raised |-> "AttributeError", ret |-> None]
    ELSE [raised |-> NoException, ret |-> [kind |-> "Options", options |-> Options(modifier)]]

RECURSIVE ApplyModifiers_continue(_, _, _, _, _)
\* The loop of ContextFactory.__call__ with the exception of a modifier caught
\* and the loop carried on.
ApplyModifiers_continue(w, f, c, k, invocations) ==
    IF k > Len(f)
    THEN [raised |-> NoException, w |-> w, invocations |-> invocations]
    ELSE LET r == Modifier__call__(w, c, f[k])
             called == Append(invocations, [position |-> k, raised |-> r.raised])
         IN ApplyModifiers_continue(r.w, f, c, k + 1, called)

RECURSIVE ApplyModifiers(_, _, _, _, _)
\* The loop of ContextFactory.__call__ from position k on: an exception of a
\* modifier ends it.  invocations lists the modifiers called and what each raised.
ApplyModifiers(w, f, c, k, invocations) ==
    IF k > Len(f)
    THEN [raised |-> NoException, w |-> w, invocations |-> invocations]
    ELSE LET r == Modifier__call__(w, c, f[k])
             called == Append(invocations, [position |-> k, raised |-> r.raised])
         IN IF r.raised # NoException
            THEN [raised |-> r.raised, w |-> r.w, invocations |-> called]
            ELSE ApplyModifiers(r.w, f, c, k + 1, called)

\* ContextFactory.__call__ with its return inside the loop: the Context is
\* returned after the first modifier.
ContextFactory__call__return_in_loop(w, f) ==
    LET w1 == Construct(w)
        context == Len(w1.contexts)
        first == IF Len(f) = 0 THEN f ELSE <<f[1]>>
        r == ApplyModifiers(w1, first, context, 1, <<>>)
    IN IF r.raised # NoException
       THEN [raised |-> r.raised, ret |-> None, w |-> w, invocations |-> r.invocations]
       ELSE [raised |-> NoException, ret |-> [kind |-> "Context", context |-> context],
             w |-> r.w, invocations |-> r.invocations]

\* ContextFactory.__call__: a Context that a modifier failed on is returned to
\* nobody, and is not kept.
ContextFactory__call__(w, f) ==
    LET w1 == Construct(w)
        context == Len(w1.contexts)
        r == ApplyModifiers(w1, f, context, 1, <<>>)
    IN IF r.raised # NoException
       THEN [raised |-> r.raised, ret |-> None, w |-> w, invocations |-> r.invocations]
       ELSE [raised |-> NoException, ret |-> [kind |-> "Context", context |-> context],
             w |-> r.w, invocations |-> r.invocations]

RECURSIVE EnumerateOptions(_, _, _)
\* The loop of get_config_requirements from position k on.
EnumerateOptions(f, k, invocations) ==
    IF k > Len(f)
    THEN [raised |-> NoException, invocations |-> invocations]
    ELSE LET r == get_config_options(f[k])
             called == Append(invocations, [position |-> k, raised |-> r.raised, ret |-> r.ret])
         IN IF r.raised # NoException
            THEN [raised |-> r.raised, invocations |-> called]
            ELSE EnumerateOptions(f, k + 1, called)

\* ContextFactory.get_config_requirements: what the modifiers return is dropped
\* and the method returns nothing.
ContextFactory_get_config_requirements(f) ==
    LET r == EnumerateOptions(f, 1, <<>>)
    IN [raised |-> r.raised, ret |-> None, invocations |-> r.invocations]

----------------------------------------------------------------------------
(* Actions *)

Install(w) ==
    /\ contexts' = w.contexts
    /\ memories' = w.memories
    /\ symbol_spaces' = w.symbol_spaces
    /\ x86NativeTable' = w.x86NativeTable

UnchangedWorld == UNCHANGED <<contexts, memories, symbol_spaces, x86NativeTable>>

\* ContextFactory(iterable)
FactoryInit ==
    \E iterable \in Iterables :
        /\ Len(iterable) <= MaxFactoryLen
        /\ factory' = list__init__(iterable)
        /\ last' = [op |-> "ContextFactory", raised |-> NoException, ret |-> None]
        /\ UnchangedWorld

\* factory.append(value)
FactoryAppend ==
    \E value \in Elements :
        /\ Len(factory) < MaxFactoryLen
        /\ factory' = list_append(factory, value)
        /\ last' = [op |-> "append", raised |-> NoException, ret |-> None]
        /\ UnchangedWorld

\* factory.insert(index, value)
FactoryInsert ==
    \E index \in 1..MaxFactoryLen, value \in Elements :
        /\ Len(factory) < MaxFactoryLen
        /\ factory' = list_insert(factory, index, value)
        /\ last' = [op |-> "insert", raised |-> NoException, ret |-> None]
        /\ UnchangedWorld

\* factory.extend(iterable)
FactoryExtend ==
    \E iterable \in Iterables :
        /\ Len(factory) + Len(iterable) <= MaxFactoryLen
        /\ factory' = list_extend(factory, iterable)
        /\ last' = [op |-> "extend", raised |-> NoException, ret |-> None]
        /\ UnchangedWorld

\* factory[key] = value
FactorySetItem ==
    \E key \in 1..MaxFactoryLen, value \in Elements :
        LET r == ContextFactory__setitem__(factory, key, value)
        IN /\ factory' = r.factory
           /\ last' = [op |-> "__setitem__", key |-> key, value |-> value,
                       raised |-> r.raised, ret |-> None]
           /\ UnchangedWorld

\* factory.get_config_requirements()
GetConfigRequirements ==
    LET r == ContextFactory_get_config_requirements(factory)
    IN /\ last' = [op |-> "get_config_requirements", raised |-> r.raised, ret |-> r.ret,
                   invocations |-> r.invocations]
       /\ UNCHANGED factory
       /\ UnchangedWorld

\* factory()
FactoryCall ==
    /\ Len(contexts) < MaxContexts
    /\ LET r == ContextFactory__call__(World, factory)
       IN /\ Install(r.w)
          /\ last' = [op |-> "__call__", raised |-> r.raised, ret |-> r.ret,
                      invocations |-> r.invocations]
    /\ UNCHANGED factory

\* Context()
NewContext ==
    /\ Len(contexts) < MaxContexts
    /\ LET w == Construct(World)
       IN /\ Install(w)
          /\ last' = [op |-> "Context", raised |-> NoException,
                      ret |-> [kind |-> "Context", context |-> Len(w.contexts)]]
    /\ UNCHANGED factory

\* context.add_translation_layer(layer)
AddTranslationLayer ==
    \E c \in 1..Len(contexts), layer \in Layers :
        LET r == Context_add_translation_layer(World, c, layer)
        IN /\ Install(r.w)
           /\ last' = [op |-> "add_translation_layer", context |-> c, layer |-> layer,
                       raised |-> r.raised, ret |-> None]
           /\ UNCHANGED factory

\* context.config = value: a ConfigGroup the caller made, or another value
SetConfig ==
    \E c \in 1..Len(contexts) :
        \E value \in {ConfigGroup("caller", c), NotAConfigGroup} :
            LET r == Context_config(World, c, value)
            IN /\ Install(r.w)
               /\ last' = [op |-> "config", context |-> c, value |-> value,
                           raised |-> r.raised, ret |-> None]
               /\ UNCHANGED factory

\* context.object(symbol, layer_name, offset, **arguments)
ObjectCall ==
    \E c \in 1..Len(contexts), symbol \in Symbols, location \in Locations,
       arguments \in Arguments :
        LET layer_name == location[1]
            offset == location[2]
            r == Context_object(World, c, symbol, layer_name, offset, arguments)
        IN /\ Install(r.w)
           /\ last' = [op |-> "object", context |-> c, symbol |-> symbol,
                       layer_name |-> layer_name, offset |-> offset,
                       arguments |-> arguments, raised |-> r.raised, ret |-> r.ret]
           /\ UNCHANGED factory

----------------------------------------------------------------------------
(* Specifications *)

Start == [op |-> "start", raised |-> NoException, ret |-> None]

EmptyWorld ==
    /\ contexts = <<>>
    /\ memories = <<>>
    /\ symbol_spaces = <<>>
    /\ x86NativeTable = NativeTemplates
    /\ last = Start

\* The factory and what it is used for.
InitFactory == factory = <<>> /\ EmptyWorld

NextFactory ==
    \/ FactoryInit
    \/ FactoryAppend
    \/ FactoryInsert
    \/ FactoryExtend
    \/ FactorySetItem
    \/ GetConfigRequirements
    \/ FactoryCall

SpecFactory == InitFactory /\ [][NextFactory]_vars

\* Contexts, built directly or by a factory of the physical and windows
\* modifiers, and what is done with them.
Init == factory = <<PhysicalModifier, WindowsModifier>> /\ EmptyWorld

Next ==
    \/ NewContext
    \/ FactoryCall
    \/ AddTranslationLayer
    \/ SetConfig
    \/ ObjectCall

Spec == Init /\ [][Next]_vars

----------------------------------------------------------------------------
(* Properties of a Context *)

\* The layer registry of Context c.
Registry(c) == memories[contexts[c]._memory]

\* The template a symbol was registered with, in whichever table defines it.
Registered(symbol) == (NativeTemplates @@ WindowsTemplates)[symbol]

\* C1, as claimed: an Object handed out by Context.object reflects the
\* parameters of the call that made it, whatever calls with other parameters
\* came before it on the same symbol, and a fresh get_structure of the symbol
\* still returns the template with the parameters it was registered with.
C1_ObjectsReflectTheirOwnParameters ==
    (last.op = "object" /\ last.raised = NoException) =>
        /\ \A p \in DOMAIN last.arguments : last.ret.vol[p] = last.arguments[p]
        /\ get_structure(World, contexts[last.context]._symbol_space, last.symbol).template
               = Registered(last.symbol)

\* C2, as claimed: add_translation_layer fails with LayerDependencyUnmet
\* whenever a dependency the layer declares is not registered, and leaves the
\* registry as it was.
C2_UnmetDependencyAlwaysRaisesDependencyUnmet ==
    [][(/\ last'.op = "add_translation_layer"
        /\ ~(last'.layer.dependencies \subseteq Names(Registry(last'.context))))
       => (/\ last'.raised = "LayerDependencyUnmet"
           /\ memories' = memories)]_vars

\* C2, amended: when a dependency the layer declares is not registered,
\* add_translation_layer fails, with LayerDependencyUnmet if no layer has the
\* layer's name yet and with LayerAlreadyExists if one has; either way every
\* registry is what it was before the call, so the name is still free for a
\* layer whose dependencies are met.
C2_UnmetDependencyFailsAtomically ==
    [][(/\ last'.op = "add_translation_layer"
        /\ ~(last'.layer.dependencies \subseteq Names(Registry(last'.context))))
       => (/\ last'.raised = IF last'.layer.name \in Names(Registry(last'.context))
                             THEN "LayerAlreadyExists"
                             ELSE "LayerDependencyUnmet"
           /\ memories' = memories
           /\ contexts' = contexts)]_vars

\* A layer with a free name and a missing dependency was refused.
C2_Witness ==
    /\ last.op = "add_translation_layer"
    /\ last.raised = "LayerDependencyUnmet"
    /\ last.layer.name \notin Names(Registry(last.context))

\* C3: adding a layer whose name is registered fails with LayerAlreadyExists
\* and the layer first registered under the name is still the one a lookup
\* returns; the names of every registry stay unique.
C3_SecondLayerOfANameIsRefused ==
    [][/\ (/\ last'.op = "add_translation_layer"
           /\ last'.layer.name \in Names(Registry(last'.context)))
          => (/\ last'.raised = "LayerAlreadyExists"
              /\ Lookup(memories'[contexts'[last'.context]._memory], last'.layer.name)
                     = Lookup(Registry(last'.context), last'.layer.name))
       /\ \A m \in 1..Len(memories') :
              Cardinality(Names(memories'[m])) = Len(memories'[m])]_vars

\* Another layer with a registered name was refused.
C3_Witness ==
    /\ last.op = "add_translation_layer"
    /\ last.raised = "LayerAlreadyExists"
    /\ Lookup(Registry(last.context), last.layer.name).layer # last.layer

\* C6, as claimed: for a symbol a table of the Context defines, Context.object
\* returns an Object of that symbol bound to exactly (the Context, the layer
\* name, the offset) and specialized with exactly the parameters given; for
\* any other symbol it raises SymbolNotFound and returns nothing.
C6_ObjectIsTheSpecializedTemplateBound ==
    last.op = "object" =>
        LET found == get_structure(World, contexts[last.context]._symbol_space, last.symbol)
        IN IF found.raised = NoException
           THEN /\ last.raised = NoException
                /\ last.ret = Build(update_vol(found.template, last.arguments),
                                    last.context, last.layer_name, last.offset)
           ELSE /\ last.raised = "SymbolNotFound"
                /\ last.ret = None

\* The Context an operation was called on, if it was called on one.
Target(l) == IF l.op \in {"add_translation_layer", "config", "object"} THEN l.context ELSE 0

\* C9: two Contexts never hold the same Memory, SymbolSpace or ConfigGroup,
\* and an operation on one Context (or the making of a new one) leaves the
\* layers, templates, native templates and configuration of every other
\* Context as they were.
C9_ContextsShareNoState ==
    [][/\ \A c \in 1..Len(contexts) :
              c # Target(last') => View(World', c) = View(World, c)
       /\ \A a, b \in 1..Len(contexts') :
              a # b => /\ contexts'[a]._memory # contexts'[b]._memory
                       /\ contexts'[a]._symbol_space # contexts'[b]._symbol_space
                       /\ contexts'[a]._config # contexts'[b]._config]_vars

\* A layer was added to one of two Contexts and the other does not have it.
C9_Witness ==
    /\ last.op = "add_translation_layer"
    /\ last.raised = NoException
    /\ \E b \in 1..Len(contexts) :
          /\ b # last.context
          /\ last.layer.name \notin Names(Registry(b))

\* C10: every step leaves each Context with the Memory and the SymbolSpace it
\* had, and with a ConfigGroup as its configuration; assigning a value that
\* is no ConfigGroup raises TypeError and leaves the configuration in place.
C10_OneMemoryOneSymbolSpaceOneConfigGroup ==
    [][\A c \in 1..Len(contexts) :
          /\ contexts'[c]._memory = contexts[c]._memory
          /\ contexts'[c]._symbol_space = contexts[c]._symbol_space
          /\ contexts'[c]._config.class = "ConfigGroup"
          /\ (/\ last'.op = "config"
              /\ last'.context = c
              /\ last'.value.class # "ConfigGroup")
             => (/\ last'.raised = "TypeError"
                 /\ contexts'[c]._config = contexts[c]._config)]_vars

\* A value that is no ConfigGroup was refused after a ConfigGroup was assigned.
C10_Witness ==
    /\ last.op = "config"
    /\ last.raised = "TypeError"
    /\ contexts[last.context]._config = ConfigGroup("caller", last.context)

----------------------------------------------------------------------------
(* Properties of a ContextFactory *)

\* C4: a call of the factory that returns has called every element of the
\* factory once, in list order, on one new Context seeded with the native
\* table: the Context has the layers of the factory's layer modifiers in list
\* order and the templates of its windows modifier; and the intel modifier,
\* which needs the physical layer, never finds it missing when the physical
\* modifier stands before it in the list.
C4_ModifiersAppliedInListOrder ==
    last.op = "__call__" =>
        LET n == Len(last.invocations)
            layer_modifiers == SelectSeq(factory, LAMBDA e : e.name \in LayerNames)
        IN /\ n <= Len(factory)
           /\ \A i \in 1..n : last.invocations[i].position = i
           /\ \A j \in 1..n :
                  (factory[j] = IntelModifier /\ \E i \in 1..(j - 1) : factory[i] = PhysicalModifier)
                      => last.invocations[j].raised # "LayerDependencyUnmet"
           /\ last.raised = NoException =>
                  /\ n = Len(factory)
                  /\ last.ret = [kind |-> "Context", context |-> Len(contexts)]
                  /\ symbol_spaces[contexts[last.ret.context]._symbol_space].natives
                         = "x86NativeTable"
                  /\ symbol_spaces[contexts[last.ret.context]._symbol_space].templates
                         = IF \E i \in 1..n : factory[i] = WindowsModifier
                           THEN WindowsTemplates ELSE NoTemplates
                  /\ Len(memories[contexts[last.ret.context]._memory]) = Len(layer_modifiers)
                  /\ \A i \in 1..Len(layer_modifiers) :
                         memories[contexts[last.ret.context]._memory][i].name
                             = layer_modifiers[i].name

\* A factory call returned a Context on which the intel modifier found the
\* layer of the physical modifier before it.
C4_Witness ==
    /\ last.op = "__call__"
    /\ last.raised = NoException
    /\ factory = <<PhysicalModifier, IntelModifier>>
    /\ Names(memories[contexts[last.ret.context]._memory]) = {"physical", "intel"}

\* C5, as claimed: get_config_requirements returns one namespace holding every
\* option every modifier of the factory declares, and rejects a name two
\* modifiers declare.
C5_RequirementsAreAggregated ==
    (/\ last.op = "get_config_requirements"
     /\ Len(factory) > 0
     /\ \A i \in 1..Len(factory) : type_check(factory[i])) =>
        IF \E i, j \in 1..Len(factory) :
               i # j /\ Options(factory[i]) \cap Options(factory[j]) # {}
        THEN last.raised # NoException
        ELSE /\ last.raised = NoException
             /\ last.ret = [kind |-> "Options",
                            options |-> UNION {Options(factory[i]) : i \in 1..Len(factory)}]

\* C7: in a factory call, a modifier that raises is the last one called, has
\* been called once, and what it raised is what the call raises; the call then
\* returns no Context.
C7_ModifierErrorEndsTheCall ==
    last.op = "__call__" =>
        \A i \in 1..Len(last.invocations) :
            last.invocations[i].raised # NoException =>
                /\ i = Len(last.invocations)
                /\ \A j \in 1..Len(last.invocations) :
                       j # i => last.invocations[j].position < last.invocations[i].position
                /\ last.raised = last.invocations[i].raised
                /\ last.ret = None

\* A factory call ended by a registration error of a modifier that is not the
\* last of the factory.
C7_Witness ==
    /\ last.op = "__call__"
    /\ last.raised \in {"LayerAlreadyExists", "LayerDependencyUnmet"}
    /\ Len(last.invocations) < Len(factory)

\* C8, as claimed: every element the factory holds has passed its type check.
C8_EveryElementIsTypeChecked ==
    \A i \in 1..Len(factory) : type_check(factory[i])

====
